---- MODULE Spec2Model ----
(***************************************************************************)
(* The Rotorflight mixer engine (src/main/flight/mixer.c) as a state       *)
(* machine.                                                                *)
(*                                                                         *)
(* Number representation.  Every C float of the mixer is a fixed-point     *)
(* integer counting thousandths: the float 0.25 is the integer 250.  The   *)
(* configuration fields are int16 thousandths already, so `x / 1000.0f`    *)
(* of a configuration field x is the integer x.  Products of two floats    *)
(* are rescaled with TDiv(_, 1000), which truncates toward zero.  NaN and  *)
(* infinities are outside the model: every producer value is finite.       *)
(*                                                                         *)
(* Bitmaps (mixOutputMap, rule gate masks, flightModeFlags) are the sets   *)
(* of their set bit positions: a & b # 0 is a \cap b # {}, a | b is        *)
(* a \cup b, BIT(i) is {i}.                                                *)
(***************************************************************************)
EXTENDS Integers, Sequences, FiniteSets, TLC

(***************************************************************************)
(* Bounds of the model.  The array sizes of flight/mixer.h and the         *)
(* saturation time are scaled down; the model is parametric in them.       *)
(***************************************************************************)
MIXER_RULE_COUNT == 3
MIXER_OUTPUT_COUNT == 3
MAX_SUPPORTED_RC_CHANNEL_COUNT == 1
MIXER_SATURATION_TIME == 3

(***************************************************************************)
(* Constants of flight/mixer.h, fc/runtime_config.h and rx (their headers  *)
(* are not among the sources; the enum order is the one the loops of       *)
(* mixer.c rely on: index 0 is MIXER_IN_NONE, the stabilized inputs are    *)
(* 1..5).                                                                  *)
(***************************************************************************)
MIXER_IN_NONE == 0
MIXER_IN_STABILIZED_ROLL == 1
MIXER_IN_STABILIZED_PITCH == 2
MIXER_IN_STABILIZED_YAW == 3
MIXER_IN_STABILIZED_COLLECTIVE == 4
MIXER_IN_STABILIZED_THROTTLE == 5
MIXER_IN_RC_COMMAND_ROLL == 6
MIXER_IN_RC_COMMAND_PITCH == 7
MIXER_IN_RC_COMMAND_YAW == 8
MIXER_IN_RC_COMMAND_COLLECTIVE == 9
MIXER_IN_RC_COMMAND_THROTTLE == 10
MIXER_IN_RC_CHANNEL_ROLL == 11
MIXER_INPUT_COUNT == MIXER_IN_RC_CHANNEL_ROLL + MAX_SUPPORTED_RC_CHANNEL_COUNT

MIXER_OP_NUL == 0
MIXER_OP_SET == 1
MIXER_OP_ADD == 2
MIXER_OP_MUL == 3
MIXER_OP_COUNT == 4

MIXER_INPUT_MIN == -2500
MIXER_INPUT_MAX == 2500
MIXER_WEIGHT_MIN == -10000
MIXER_WEIGHT_MAX == 10000
MIXER_OVERRIDE_MIN == -2500
MIXER_OVERRIDE_MAX == 2500
MIXER_OVERRIDE_OFF == MIXER_OVERRIDE_MAX + 1

TAIL_MODE_VARIABLE == 0
TAIL_MODE_MOTORIZED == 1
TAIL_MODE_BIDIRECTIONAL == 2

DIR_CW == 0
DIR_CCW == 1

\* Bit position of PASSTHRU_MODE in flightModeFlags.
PASSTHRU_MODE == 8

\* rcCommand is +-500 for full stick: MIXER_RC_SCALING is 1/500, so one
\* rcCommand unit is 2 thousandths.
MIXER_RC_SCALING_MILLI == 2
\* rcCommand[THROTTLE] is 1000..2000: MIXER_THR_OFFSET is 1000 and
\* MIXER_THR_SCALING is 1/1000.
MIXER_THR_OFFSET == 1000
\* rxConfig()->midrc
MIDRC == 1500

\* Width of the flight mode flags: the shift of line 283.
FLIGHT_MODE_BITS == 16

InputIdx == 0 .. (MIXER_INPUT_COUNT - 1)
OutputIdx == 0 .. (MIXER_OUTPUT_COUNT - 1)
RuleIdx == 0 .. (MIXER_RULE_COUNT - 1)
ChannelIdx == 0 .. (MAX_SUPPORTED_RC_CHANNEL_COUNT - 1)

(***************************************************************************)
(* Arithmetic helpers.                                                     *)
(***************************************************************************)
\* C division of a float product back to thousandths (b > 0).
TDiv(a, b) == IF a >= 0 THEN a \div b ELSE -((-a) \div b)

ABS(x) == IF x < 0 THEN -x ELSE x

fmaxf(a, b) == IF a > b THEN a ELSE b

\* common/maths: constrain(amt, low, high)
constrain(amt, low, high) ==
    IF amt < low THEN low ELSE IF amt > high THEN high ELSE amt

RECURSIVE IsqrtIn(_, _, _)
IsqrtIn(n, lo, hi) ==
    IF lo >= hi THEN lo
    ELSE LET mid == (lo + hi + 1) \div 2
         IN  IF mid * mid <= n THEN IsqrtIn(n, mid, hi)
                               ELSE IsqrtIn(n, lo, mid - 1)

\* Largest r with r * r <= n (n >= 0, n < 2^30).
Isqrt(n) == IsqrtIn(n, 0, 32767)

\* sqrtf of a float in thousandths, in thousandths: sqrt(m/1000)*1000.
sqrtfMilli(m) == Isqrt(m * 1000)

VARIABLES
    mixerRules,          \* persisted rule table (PG array mixerRules)
    mixerInputs,         \* persisted input configuration (PG array mixerInputs)
    mixerConfig,         \* persisted mixer configuration (PG mixerConfig)
    rules,               \* runtime rule table
    mixInput,
    mixOutput,
    mixOverride,
    mixOutputMap,
    mixSaturated,
    cyclicTotal,
    cyclicLimit,
    tailMotorIdle,
    tailMotorDirection,
    phaseSin,
    phaseCos,
    armed,               \* ARMING_FLAG(ARMED)
    flightModeFlags,     \* set of active flight mode bits
    spooledUp,           \* isSpooledUp()
    producers,           \* rcCommand, rcData, PID sums, governor output
    op,                  \* the operation that ran last: [name, arg]
    stored,              \* mixInput[i] as mixerSetInput(i) returned, last tick
    storedSat,           \* mixSaturated[i] as mixerSetInput(i) returned, last tick
    age,                 \* ticks since the last saturation event of input i
    applied,             \* the rule slots the last tick applied
    prevOutput,          \* mixOutput as the last tick found it
    prevDirection,       \* tailMotorDirection as the last tick found it
    phased               \* stabilized roll and pitch after the swash phasing
                         \* of the last tick, before its swash ring

vars == << mixerRules, mixerInputs, mixerConfig, rules, mixInput, mixOutput,
           mixOverride, mixOutputMap, mixSaturated, cyclicTotal, cyclicLimit,
           tailMotorIdle, tailMotorDirection, phaseSin, phaseCos, armed,
           flightModeFlags, spooledUp, producers, op, stored, storedSat, age,
           applied, prevOutput, prevDirection, phased >>

(***************************************************************************)
(* mixerSetInput (lines 94-120), on the pair st = [in, sat, hit]: the      *)
(* input vector, the saturation counters, and the inputs whose counter     *)
(* mixerSaturateInput has set during the running operation.                *)
(***************************************************************************)
\* mixerSaturateInput (lines 361-364) inside a running operation.
SaturateInputIn(st, index) ==
    [st EXCEPT !.sat[index] = MIXER_SATURATION_TIME, !.hit = @ \cup {index}]

\* Line 100: the override of an input is one to apply.
OverrideInRange(index) ==
    /\ mixOverride[index] >= MIXER_OVERRIDE_MIN
    /\ mixOverride[index] <= MIXER_OVERRIDE_MAX

\* The override check without the arming check.
OverriddenValueArmed(e, index, value) ==
    IF OverrideInRange(index) THEN mixOverride[index] ELSE value

\* Lines 98-102: the value after the override check.
OverriddenValue(e, index, value) ==
    IF ~e.armed /\ OverrideInRange(index) THEN mixOverride[index] ELSE value

\* Constrain, and saturate on the upper bound only.
ConstrainSaturateHigh(st, index, value) ==
    LET imin == mixerInputs[index].min
        imax == mixerInputs[index].max
    IN  IF value > imax
            THEN SaturateInputIn([st EXCEPT !.in[index] = imax], index)
        ELSE IF value < imin
            THEN [st EXCEPT !.in[index] = imin]
        ELSE [st EXCEPT !.in[index] = value]

\* Saturate on both bounds, constrain to the upper bound only.
ConstrainHighSaturate(st, index, value) ==
    LET imin == mixerInputs[index].min
        imax == mixerInputs[index].max
    IN  IF value > imax
            THEN SaturateInputIn([st EXCEPT !.in[index] = imax], index)
        ELSE IF value < imin
            THEN SaturateInputIn([st EXCEPT !.in[index] = value], index)
        ELSE [st EXCEPT !.in[index] = value]

\* Lines 104-119: constrain and saturate.
ConstrainAndSaturate(st, index, value) ==
    LET imin == mixerInputs[index].min
        imax == mixerInputs[index].max
    IN  IF value > imax
            THEN SaturateInputIn([st EXCEPT !.in[index] = imax], index)
        ELSE IF value < imin
            THEN SaturateInputIn([st EXCEPT !.in[index] = imin], index)
        ELSE [st EXCEPT !.in[index] = value]

mixerSetInput(e, st, index, value) ==
    ConstrainAndSaturate(st, index, OverriddenValue(e, index, value))

(***************************************************************************)
(* mixerCyclicLimit (lines 122-168).                                       *)
(***************************************************************************)
\* The rotation with the sign of the sine reversed.
SwashPhasingReversed(st) ==
    IF phaseSin # 0
        THEN LET SR == st.in[MIXER_IN_STABILIZED_ROLL]
                 SP == st.in[MIXER_IN_STABILIZED_PITCH]
             IN  [st EXCEPT
                    !.in[MIXER_IN_STABILIZED_PITCH] =
                        TDiv(SP * phaseCos + SR * phaseSin, 1000),
                    !.in[MIXER_IN_STABILIZED_ROLL] =
                        TDiv(SR * phaseCos - SP * phaseSin, 1000)]
        ELSE st

\* Lines 125-132: swash phasing.
SwashPhasing(st) ==
    IF phaseSin # 0
        THEN LET SR == st.in[MIXER_IN_STABILIZED_ROLL]
                 SP == st.in[MIXER_IN_STABILIZED_PITCH]
             IN  [st EXCEPT
                    !.in[MIXER_IN_STABILIZED_PITCH] =
                        TDiv(SP * phaseCos - SR * phaseSin, 1000),
                    !.in[MIXER_IN_STABILIZED_ROLL] =
                        TDiv(SP * phaseSin + SR * phaseCos, 1000)]
        ELSE st

\* Lines 137-152: the stretched cyclic deflection, in thousandths.
StretchedCyclic(st) ==
    LET SR == st.in[MIXER_IN_STABILIZED_ROLL]
        SP == st.in[MIXER_IN_STABILIZED_PITCH]
        mixR == mixerInputs[MIXER_IN_STABILIZED_ROLL]
        mixP == mixerInputs[MIXER_IN_STABILIZED_PITCH]
        maxR == ABS(IF SR < 0 THEN mixR.min ELSE mixR.max)
        maxP == ABS(IF SP < 0 THEN mixP.min ELSE mixP.max)
        \* fmaxf(max, 0.001f) * cyclicLimit, at least one thousandth
        limR == fmaxf(TDiv(fmaxf(maxR, 1) * cyclicLimit, 1000), 1)
        limP == fmaxf(TDiv(fmaxf(maxP, 1) * cyclicLimit, 1000), 1)
        SRn == TDiv(SR * 1000, limR)
        SPn == TDiv(SP * 1000, limP)
    IN  Isqrt(SRn * SRn + SPn * SPn)

\* A swash ring that scales back and marks the roll only.
SwashRingRollOnly(st) ==
    IF cyclicLimit > 0 /\ StretchedCyclic(st) > 1000
        THEN LET cyclic == StretchedCyclic(st)
                 s1 == SaturateInputIn(st, MIXER_IN_STABILIZED_ROLL)
             IN  [s1 EXCEPT
                    !.in[MIXER_IN_STABILIZED_ROLL] = TDiv(@ * 1000, cyclic),
                    !.in[MIXER_IN_STABILIZED_PITCH] = TDiv(@ * 1000, cyclic)]
        ELSE st

\* Lines 135-163: swash ring.
SwashRing(st) ==
    IF cyclicLimit > 0 /\ StretchedCyclic(st) > 1000
        THEN LET cyclic == StretchedCyclic(st)
                 s1 == SaturateInputIn(st, MIXER_IN_STABILIZED_ROLL)
                 s2 == SaturateInputIn(s1, MIXER_IN_STABILIZED_PITCH)
             IN  [s2 EXCEPT
                    !.in[MIXER_IN_STABILIZED_ROLL] = TDiv(@ * 1000, cyclic),
                    !.in[MIXER_IN_STABILIZED_PITCH] = TDiv(@ * 1000, cyclic)]
        ELSE st

\* Lines 165-167.
CyclicDeflection(st) ==
    Isqrt(st.in[MIXER_IN_STABILIZED_ROLL] * st.in[MIXER_IN_STABILIZED_ROLL]
          + st.in[MIXER_IN_STABILIZED_PITCH] * st.in[MIXER_IN_STABILIZED_PITCH])

mixerCyclicLimit(st) == SwashRing(SwashPhasing(st))

\* The deflection taken after the phasing and before the swash ring.
CyclicTotalBeforeRing(st) == CyclicDeflection(SwashPhasing(st))

\* cyclicTotal as mixerCyclicLimit leaves it, called on st.
CyclicTotalOf(st) == CyclicDeflection(mixerCyclicLimit(st))

(***************************************************************************)
(* mixerUpdateMotorizedTail (lines 170-219).  Returns the tail throttle    *)
(* (the new yaw input) and the new tailMotorDirection.                     *)
(***************************************************************************)
mixerIsTailMode(mode) == mixerConfig.tail_rotor_mode = mode

mixerMotorizedTail ==
    mixerIsTailMode(TAIL_MODE_MOTORIZED) \/ mixerIsTailMode(TAIL_MODE_BIDIRECTIONAL)

\* Slow spoolup that scales below 0.20 and never cuts.
SlowSpoolupScaleOnly(e, st, throttle) ==
    IF ~e.spooledUp /\ st.in[MIXER_IN_STABILIZED_THROTTLE] < 200
        THEN TDiv(throttle * st.in[MIXER_IN_STABILIZED_THROTTLE], 200)
        ELSE throttle

\* Lines 183-189 and 205-211: slow spoolup.
SlowSpoolup(e, st, throttle) ==
    IF ~e.spooledUp
        THEN IF st.in[MIXER_IN_STABILIZED_THROTTLE] < 10 THEN 0
             ELSE IF st.in[MIXER_IN_STABILIZED_THROTTLE] < 200
                 THEN TDiv(throttle * st.in[MIXER_IN_STABILIZED_THROTTLE], 200)
             ELSE throttle
        ELSE throttle

\* The linearized throttle without the idle floor.
MotorizedThrottleNoIdle(e, st) ==
    SlowSpoolup(e, st, sqrtfMilli(fmaxf(st.in[MIXER_IN_STABILIZED_YAW], 0)))

\* Lines 173-193.
MotorizedThrottle(e, st) ==
    LET yaw == st.in[MIXER_IN_STABILIZED_YAW]
        linear == sqrtfMilli(fmaxf(yaw, 0))
    IN  SlowSpoolup(e, st, fmaxf(linear, tailMotorIdle))

\* The idle snap always forward, whatever the remembered direction.
BidirectionalThrottleForward(e, st) ==
    LET yaw == st.in[MIXER_IN_STABILIZED_YAW]
        linear == IF yaw < 0 THEN -sqrtfMilli(-yaw) ELSE sqrtfMilli(yaw)
    IN  SlowSpoolup(e, st, IF linear > -tailMotorIdle /\ linear < tailMotorIdle
                               THEN tailMotorIdle ELSE linear)

\* Lines 194-211.
BidirectionalThrottle(e, st) ==
    LET yaw == st.in[MIXER_IN_STABILIZED_YAW]
        linear == IF yaw < 0 THEN -sqrtfMilli(-yaw) ELSE sqrtfMilli(yaw)
        floored == IF linear > -tailMotorIdle /\ linear < tailMotorIdle
                       THEN tailMotorDirection * tailMotorIdle
                       ELSE linear
    IN  SlowSpoolup(e, st, floored)

\* Line 214.
DirectionSign(throttle) == IF throttle < 0 THEN -1 ELSE 1

mixerUpdateMotorizedTail(e, st) ==
    IF mixerIsTailMode(TAIL_MODE_MOTORIZED)
        THEN [st |-> [st EXCEPT !.in[MIXER_IN_STABILIZED_YAW] = MotorizedThrottle(e, st)],
              dir |-> tailMotorDirection]
    ELSE IF mixerIsTailMode(TAIL_MODE_BIDIRECTIONAL)
        THEN LET throttle == BidirectionalThrottle(e, st)
             IN  [st |-> [st EXCEPT !.in[MIXER_IN_STABILIZED_YAW] = throttle],
                  dir |-> DirectionSign(throttle)]
    ELSE [st |-> st, dir |-> tailMotorDirection]

(***************************************************************************)
(* mixerUpdateInputs (lines 221-269).                                      *)
(***************************************************************************)
\* A decay that stops at one.
DecaySaturationAboveOne(sat) ==
    [i \in InputIdx |-> IF sat[i] > 1 THEN sat[i] - 1 ELSE sat[i]]

\* A decay that does not stop at zero.
DecaySaturationAlways(sat) == [i \in InputIdx |-> sat[i] - 1]

\* Lines 224-227: every non-zero counter loses one.
DecaySaturation(sat) ==
    [i \in InputIdx |-> IF sat[i] # 0 THEN sat[i] - 1 ELSE sat[i]]

\* mixerRotationSign() of flight/mixer.h.
mixerRotationSign == IF mixerConfig.main_rotor_dir = DIR_CW THEN -1 ELSE 1

\* The value mixerUpdateInputs passes to mixerSetInput for input i >= 1.
RawValue(e, i) ==
    CASE i = MIXER_IN_RC_COMMAND_ROLL ->
            e.producers.rcCommand.ROLL * MIXER_RC_SCALING_MILLI
      [] i = MIXER_IN_RC_COMMAND_PITCH ->
            e.producers.rcCommand.PITCH * MIXER_RC_SCALING_MILLI
      [] i = MIXER_IN_RC_COMMAND_YAW ->
            e.producers.rcCommand.YAW * MIXER_RC_SCALING_MILLI
      [] i = MIXER_IN_RC_COMMAND_COLLECTIVE ->
            e.producers.rcCommand.COLLECTIVE * MIXER_RC_SCALING_MILLI
      [] i = MIXER_IN_RC_COMMAND_THROTTLE ->
            e.producers.rcCommand.THROTTLE - MIXER_THR_OFFSET
      [] i >= MIXER_IN_RC_CHANNEL_ROLL ->
            (e.producers.rcData[i - MIXER_IN_RC_CHANNEL_ROLL] - MIDRC)
                * MIXER_RC_SCALING_MILLI
      [] i = MIXER_IN_STABILIZED_COLLECTIVE -> e.producers.collective
      [] i = MIXER_IN_STABILIZED_ROLL ->
            IF PASSTHRU_MODE \notin e.flags
                THEN e.producers.pidRoll
                ELSE e.producers.rcCommand.ROLL * MIXER_RC_SCALING_MILLI
      [] i = MIXER_IN_STABILIZED_PITCH ->
            IF PASSTHRU_MODE \notin e.flags
                THEN e.producers.pidPitch
                ELSE e.producers.rcCommand.PITCH * MIXER_RC_SCALING_MILLI
      [] i = MIXER_IN_STABILIZED_YAW -> mixerRotationSign * e.producers.pidYaw
      [] i = MIXER_IN_STABILIZED_THROTTLE -> e.producers.governor

\* mixerSetInput for each input of the sequence, in order.
RECURSIVE SetInputs(_, _, _)
SetInputs(e, st, indices) ==
    IF indices = << >> THEN st
    ELSE SetInputs(e, mixerSetInput(e, st, Head(indices), RawValue(e, Head(indices))),
                   Tail(indices))

\* Lines 230-252: the inputs set before mixerCyclicLimit, in call order.
InputsBeforeCyclic ==
    << MIXER_IN_RC_COMMAND_ROLL, MIXER_IN_RC_COMMAND_PITCH,
       MIXER_IN_RC_COMMAND_YAW, MIXER_IN_RC_COMMAND_COLLECTIVE,
       MIXER_IN_RC_COMMAND_THROTTLE >>
    \o [c \in 1 .. MAX_SUPPORTED_RC_CHANNEL_COUNT |->
            MIXER_IN_RC_CHANNEL_ROLL + c - 1]
    \o << MIXER_IN_STABILIZED_COLLECTIVE, MIXER_IN_STABILIZED_ROLL,
          MIXER_IN_STABILIZED_PITCH >>

\* Lines 258-264: the inputs set after it.
InputsAfterCyclic ==
    << MIXER_IN_STABILIZED_YAW, MIXER_IN_STABILIZED_THROTTLE >>

\* The whole of mixerUpdateInputs from the state at its call: the final
\* st, the new tail direction, and the values and counters as each
\* mixerSetInput call left them.
mixerUpdateInputs(e) ==
    LET s0 == [in |-> mixInput, sat |-> DecaySaturation(mixSaturated), hit |-> {}]
        sA == SetInputs(e, s0, InputsBeforeCyclic)
        sP == SwashPhasing(sA)
        sB == mixerCyclicLimit(sA)
        sC == SetInputs(e, sB, InputsAfterCyclic)
        tl == IF mixerMotorizedTail THEN mixerUpdateMotorizedTail(e, sC)
                                    ELSE [st |-> sC, dir |-> tailMotorDirection]
        early == {MIXER_IN_STABILIZED_ROLL, MIXER_IN_STABILIZED_PITCH}
    IN  [st |-> tl.st,
         dir |-> tl.dir,
         total |-> CyclicTotalOf(sA),
         phased |-> [roll |-> sP.in[MIXER_IN_STABILIZED_ROLL],
                     pitch |-> sP.in[MIXER_IN_STABILIZED_PITCH]],
         stored |-> [i \in InputIdx |-> IF i \in early THEN sA.in[i] ELSE sC.in[i]],
         storedSat |-> [i \in InputIdx |-> IF i \in early THEN sA.sat[i] ELSE sC.sat[i]]]

(***************************************************************************)
(* The rule loop of mixerUpdate (lines 282-309).                           *)
(***************************************************************************)
\* The flags without the complement in the upper half.
FlightModeMaskLower(flags) == flags

\* Line 283: lower half the active flags, upper half their complement.
FlightModeMask(flags) ==
    flags \cup {b + FLIGHT_MODE_BITS : b \in (0 .. (FLIGHT_MODE_BITS - 1)) \ flags}

\* Line 287.
RuleApplies(flightModeMask, i) ==
    /\ rules[i].oper # MIXER_OP_NUL
    /\ (rules[i].mode = {} \/ rules[i].mode \cap flightModeMask # {})

\* Lines 290-291, from the input vector in.
RuleOutput(in, i) ==
    LET src == rules[i].input
        val == TDiv(in[src] * mixerInputs[src].rate, 1000)
    IN  rules[i].offset + TDiv(rules[i].weight * val, 1000)

\* ADD that assigns, as SET does.
ApplyOperatorAssign(o, in, i) ==
    LET src == rules[i].input
        dst == rules[i].output
        out == TDiv(rules[i].weight
                        * TDiv(in[src] * mixerInputs[src].rate, 1000), 1000)
                 + rules[i].offset
    IN  IF rules[i].oper = MIXER_OP_MUL
            THEN [out |-> [o.out EXCEPT ![dst] = TDiv(@ * out, 1000)],
                  map |-> [o.map EXCEPT ![dst] = @ \cup {src}],
                  applied |-> o.applied \cup {i}]
            ELSE [out |-> [o.out EXCEPT ![dst] = out],
                  map |-> [o.map EXCEPT ![dst] = {src}],
                  applied |-> o.applied \cup {i}]

\* SET that adds its source to the bitmap, as ADD and MUL do.
ApplyOperatorSetAdds(o, in, i) ==
    LET src == rules[i].input
        dst == rules[i].output
        out == rules[i].offset
                 + TDiv(rules[i].weight
                            * TDiv(in[src] * mixerInputs[src].rate, 1000), 1000)
    IN  [out |-> [o.out EXCEPT ![dst] =
                     CASE rules[i].oper = MIXER_OP_SET -> out
                       [] rules[i].oper = MIXER_OP_ADD -> @ + out
                       [] OTHER -> TDiv(@ * out, 1000)],
         map |-> [o.map EXCEPT ![dst] = @ \cup {src}],
         applied |-> o.applied \cup {i}]

\* Lines 293-307: o = [out, map, applied], the outputs, their contributor
\* bitmaps and the slots applied so far.
ApplyOperator(o, in, i) ==
    LET src == rules[i].input
        dst == rules[i].output
        out == RuleOutput(in, i)
        a == o.applied \cup {i}
    IN  CASE rules[i].oper = MIXER_OP_SET ->
                [out |-> [o.out EXCEPT ![dst] = out],
                 map |-> [o.map EXCEPT ![dst] = {src}], applied |-> a]
          [] rules[i].oper = MIXER_OP_ADD ->
                [out |-> [o.out EXCEPT ![dst] = @ + out],
                 map |-> [o.map EXCEPT ![dst] = @ \cup {src}], applied |-> a]
          [] rules[i].oper = MIXER_OP_MUL ->
                [out |-> [o.out EXCEPT ![dst] = TDiv(@ * out, 1000)],
                 map |-> [o.map EXCEPT ![dst] = @ \cup {src}], applied |-> a]
          [] OTHER -> [o EXCEPT !.applied = a]

\* Lines 286-309: the rules from slot i on, in table order.
RECURSIVE RuleLoop(_, _, _, _)
RuleLoop(flightModeMask, o, in, i) ==
    IF i >= MIXER_RULE_COUNT THEN o
    ELSE RuleLoop(flightModeMask,
                  IF RuleApplies(flightModeMask, i) THEN ApplyOperator(o, in, i) ELSE o,
                  in, i + 1)

\* No reset: the loop starts from the outputs of the tick before.
ResetOutputsKeep(out, map) == [out |-> out, map |-> map, applied |-> {}]

\* Lines 277-280.
ResetOutputs(out, map) ==
    [out |-> [d \in OutputIdx |-> 0], map |-> [d \in OutputIdx |-> {}],
     applied |-> {}]

(***************************************************************************)
(* mixerInit and mixerInitSwash (lines 312-353).                           *)
(***************************************************************************)
ZeroRule ==
    [mode |-> {}, oper |-> 0, input |-> 0, output |-> 0, offset |-> 0, weight |-> 0]

\* The persisted rule copied as it is.
ConstrainRuleCopy(rule) == rule

\* Lines 337-342: the persisted rule with its fields constrained.
ConstrainRule(rule) ==
    [mode   |-> rule.mode,
     oper   |-> constrain(rule.oper, 0, MIXER_OP_COUNT - 1),
     input  |-> constrain(rule.input, 0, MIXER_INPUT_COUNT - 1),
     output |-> constrain(rule.output, 0, MIXER_OUTPUT_COUNT - 1),
     offset |-> constrain(rule.offset, MIXER_INPUT_MIN, MIXER_INPUT_MAX),
     weight |-> constrain(rule.weight, MIXER_WEIGHT_MIN, MIXER_WEIGHT_MAX)]

\* Lines 332-344: a slot is loaded only when its persisted operator is set.
LoadRules(old) ==
    [i \in RuleIdx |->
        IF mixerRules[i].oper # 0 THEN ConstrainRule(mixerRules[i]) ELSE old[i]]

\* Lines 346-348.
ResetOverrides(old) ==
    [i \in InputIdx |-> IF i >= 1 THEN MIXER_OVERRIDE_OFF ELSE old[i]]

\* sin_approx and cos_approx of common/maths, in thousandths, for the
\* phase angles the model configures (decidegrees).
sin_approx(deci) == CASE deci = 900 -> 1000 [] deci = 1800 -> 0 [] OTHER -> 0
cos_approx(deci) == CASE deci = 900 -> 0 [] deci = 1800 -> -1000 [] OTHER -> 1000

\* Lines 314-322.
SwashPhaseSin ==
    IF mixerConfig.swash_phase # 0 THEN sin_approx(mixerConfig.swash_phase) ELSE 0
SwashPhaseCos ==
    IF mixerConfig.swash_phase # 0 THEN cos_approx(mixerConfig.swash_phase) ELSE 1000

\* Lines 324-327: 1.41f - swash_ring * 0.0041f.
SwashCyclicLimit ==
    IF mixerConfig.swash_ring # 0
        THEN TDiv(14100 - mixerConfig.swash_ring * 41, 10)
        ELSE 0

(***************************************************************************)
(* The configurations and producer values the model draws from.            *)
(***************************************************************************)
Rule(mode, oper, input, output, offset, weight) ==
    [mode |-> mode, oper |-> oper, input |-> input, output |-> output,
     offset |-> offset, weight |-> weight]

\* A rule table from its leading slots; the slots after them are empty.
Table(slots) ==
    [i \in RuleIdx |-> IF i + 1 <= Len(slots) THEN slots[i + 1] ELSE ZeroRule]

TableSetAdd ==
    Table(<< Rule({}, MIXER_OP_SET, MIXER_IN_STABILIZED_ROLL, 1, 0, 1000),
             Rule({}, MIXER_OP_ADD, MIXER_IN_STABILIZED_COLLECTIVE, 1, 100, 500) >>)

TableAddSet ==
    Table(<< Rule({}, MIXER_OP_ADD, MIXER_IN_STABILIZED_COLLECTIVE, 1, 100, 500),
             Rule({}, MIXER_OP_SET, MIXER_IN_STABILIZED_ROLL, 1, 0, 1000),
             Rule({}, MIXER_OP_MUL, MIXER_IN_STABILIZED_YAW, 2, 0, 1000) >>)

\* Slot 0 is gated on flight mode bit 0 being active, slot 1 on
\* PASSTHRU_MODE being inactive; slot 2 has every field out of range.
TableGated ==
    Table(<< Rule({0}, MIXER_OP_SET, MIXER_IN_NONE, 0, 500, 1000),
             Rule({PASSTHRU_MODE + FLIGHT_MODE_BITS}, MIXER_OP_SET,
                  MIXER_IN_STABILIZED_YAW, 2, 0, 1000),
             Rule({}, 7, 200, 200, 9999, -20000) >>)

\* A constant from MIXER_IN_NONE and the collective into output 1, an RC
\* command into output 2 while flight mode bit 0 is active.
TableOffset ==
    Table(<< Rule({}, MIXER_OP_SET, MIXER_IN_NONE, 1, 250, 0),
             Rule({}, MIXER_OP_ADD, MIXER_IN_STABILIZED_COLLECTIVE, 1, 0, 1000),
             Rule({0}, MIXER_OP_SET, MIXER_IN_RC_COMMAND_ROLL, 2, 0, 1000) >>)

RuleTables == {TableSetAdd, TableAddSet, TableGated}

InputConfig(rate, min, max) == [rate |-> rate, min |-> min, max |-> max]

\* pgResetFn_mixerInputs (lines 67-74): the stabilized inputs are
\* +-1000, every other input is zero.
DefaultInputs ==
    [i \in InputIdx |->
        IF i >= MIXER_IN_STABILIZED_ROLL /\ i <= MIXER_IN_STABILIZED_THROTTLE
            THEN InputConfig(1000, -1000, 1000)
            ELSE InputConfig(0, 0, 0)]

\* Narrow yaw and collective, and the RC inputs opened.
TrimmedInputs ==
    [i \in InputIdx |->
        CASE i = MIXER_IN_NONE -> InputConfig(0, 0, 0)
          [] i = MIXER_IN_STABILIZED_YAW -> InputConfig(1000, -500, 500)
          [] i = MIXER_IN_STABILIZED_COLLECTIVE -> InputConfig(500, -250, 250)
          [] OTHER -> InputConfig(1000, -1000, 1000)]

\* The pitch travel half the roll travel.
NarrowInputs ==
    [DefaultInputs EXCEPT ![MIXER_IN_STABILIZED_PITCH] =
        InputConfig(1000, -500, 500)]

\* The collective's min above its max.
InvertedInputs ==
    [DefaultInputs EXCEPT ![MIXER_IN_STABILIZED_COLLECTIVE] =
        InputConfig(1000, 500, -500)]

MixerConfig(dir, mode, idle, ring, phase) ==
    [main_rotor_dir |-> dir, tail_rotor_mode |-> mode, tail_motor_idle |-> idle,
     swash_ring |-> ring, swash_phase |-> phase]

\* PG_RESET_TEMPLATE (lines 55-61).
DefaultConfig == MixerConfig(DIR_CW, TAIL_MODE_VARIABLE, 0, 0, 0)
RingConfig == MixerConfig(DIR_CCW, TAIL_MODE_VARIABLE, 0, 100, 0)
MotorizedConfig == MixerConfig(DIR_CCW, TAIL_MODE_MOTORIZED, 100, 0, 0)
BidirectionalConfig == MixerConfig(DIR_CW, TAIL_MODE_BIDIRECTIONAL, 100, 0, 900)
\* Swash phase 90 and 180 degrees, without and with the swash ring.
PhaseConfig == MixerConfig(DIR_CW, TAIL_MODE_VARIABLE, 0, 0, 900)
HalfTurnConfig == MixerConfig(DIR_CW, TAIL_MODE_VARIABLE, 0, 0, 1800)
PhaseRingConfig == MixerConfig(DIR_CW, TAIL_MODE_VARIABLE, 0, 100, 900)

Producers(pidRoll, pidPitch, pidYaw, collective, governor, rcRoll, rcThrottle, channel) ==
    [pidRoll |-> pidRoll, pidPitch |-> pidPitch, pidYaw |-> pidYaw,
     collective |-> collective, governor |-> governor,
     rcCommand |-> [ROLL |-> rcRoll, PITCH |-> 0, YAW |-> 0, COLLECTIVE |-> 0,
                    THROTTLE |-> rcThrottle],
     rcData |-> [c \in ChannelIdx |-> channel]]

\* Sticks centred, nothing demanded.
Neutral == Producers(0, 0, 0, 0, 0, 0, 1000, 1500)
\* Cyclic in the corner, the collective exactly on the default bound.
Corner == Producers(800, 800, 250, 1000, 1000, 250, 1500, 1500)
\* Yaw and collective beyond every bound, the rotor spooling up.
Beyond == Producers(1000, 0, -2000, 1500, 100, -100, 1000, 1750)
\* A small cyclic demand, inside every limit.
Gentle == Producers(300, -400, 0, 0, 1000, 0, 1500, 1500)
\* No yaw demand, the main throttle just off its stop.
Creep == Producers(0, 0, 0, 0, 5, 0, 1005, 1500)
\* No yaw demand, the main throttle half way through the slow spoolup.
Slow == Producers(0, 0, 0, 0, 100, 0, 1100, 1500)

(***************************************************************************)
(* The state after construction: the statics are zero-initialised, the     *)
(* persisted configuration is whatever was stored.                         *)
(***************************************************************************)
InitWith(tables, inputConfigs, mixerConfigs) ==
    /\ mixerRules \in tables
    /\ mixerInputs \in inputConfigs
    /\ mixerConfig \in mixerConfigs
    /\ rules = [i \in RuleIdx |-> ZeroRule]
    /\ mixInput = [i \in InputIdx |-> 0]
    /\ mixOutput = [d \in OutputIdx |-> 0]
    /\ mixOverride = [i \in InputIdx |-> 0]
    /\ mixOutputMap = [d \in OutputIdx |-> {}]
    /\ mixSaturated = [i \in InputIdx |-> 0]
    /\ cyclicTotal = 0
    /\ cyclicLimit = 0
    /\ tailMotorIdle = 0
    /\ tailMotorDirection = 0
    /\ phaseSin = 0
    /\ phaseCos = 0
    /\ armed = FALSE
    /\ flightModeFlags = {}
    /\ spooledUp = FALSE
    /\ producers = Neutral
    /\ op = [name |-> "boot", arg |-> 0]
    /\ stored = [i \in InputIdx |-> 0]
    /\ storedSat = [i \in InputIdx |-> 0]
    /\ age = [i \in InputIdx |-> MIXER_SATURATION_TIME]
    /\ applied = {}
    /\ prevOutput = [d \in OutputIdx |-> 0]
    /\ prevDirection = 0
    /\ phased = [roll |-> 0, pitch |-> 0]

configVars == << mixerInputs, mixerConfig >>
initVars == << rules, cyclicLimit, tailMotorIdle, phaseSin, phaseCos >>
envVars == << armed, flightModeFlags, spooledUp, producers >>
tickVars == << mixInput, mixOutput, mixOutputMap, cyclicTotal, tailMotorDirection,
               stored, storedSat, applied, prevOutput, prevDirection, phased >>

(***************************************************************************)
(* The operations.                                                         *)
(***************************************************************************)
\* mixerInit (lines 330-353).
MixerInit ==
    /\ rules' = LoadRules(rules)
    /\ mixOverride' = ResetOverrides(mixOverride)
    /\ tailMotorIdle' = mixerConfig.tail_motor_idle
    /\ phaseSin' = SwashPhaseSin
    /\ phaseCos' = SwashPhaseCos
    /\ cyclicLimit' = SwashCyclicLimit
    /\ op' = [name |-> "init", arg |-> 0]
    /\ UNCHANGED << mixerRules, configVars, envVars, tickVars, mixSaturated, age >>

\* The age of each input's last saturation event after an operation that
\* set the counters of the inputs in hit; a tick makes the others older.
Aged(hit, tick) ==
    [i \in InputIdx |->
        IF i \in hit THEN 0
        ELSE IF tick /\ age[i] < MIXER_SATURATION_TIME THEN age[i] + 1
        ELSE age[i]]

\* What a tick reads from the mixer's collaborators.
Env(a, flags, spooled, p) ==
    [armed |-> a, flags |-> flags, spooledUp |-> spooled, producers |-> p]

\* mixerUpdate (lines 271-310), reading e from its collaborators.
MixerUpdate(e) ==
    /\ op.name # "boot"
    /\ armed' = e.armed
    /\ flightModeFlags' = e.flags
    /\ spooledUp' = e.spooledUp
    /\ producers' = e.producers
    /\ \E u \in {mixerUpdateInputs(e)} :
         \E o \in {RuleLoop(FlightModeMask(e.flags),
                            ResetOutputs(mixOutput, mixOutputMap), u.st.in, 0)} :
           /\ mixInput' = u.st.in
           /\ mixSaturated' = u.st.sat
           /\ tailMotorDirection' = u.dir
           /\ cyclicTotal' = u.total
           /\ stored' = u.stored
           /\ storedSat' = u.storedSat
           /\ age' = Aged(u.st.hit, TRUE)
           /\ mixOutput' = o.out
           /\ mixOutputMap' = o.map
           /\ applied' = o.applied
           /\ prevOutput' = mixOutput
           /\ prevDirection' = tailMotorDirection
           /\ phased' = u.phased
    /\ op' = [name |-> "update", arg |-> 0]
    /\ UNCHANGED << mixerRules, configVars, initVars, mixOverride >>

\* The loop of mixerSaturateOutput started at index 0.
SaturatedByOutputFromZero(index) ==
    {i \in 0 .. (MIXER_INPUT_COUNT - 1) : i \in mixOutputMap[index]}

\* Lines 368-372: the inputs mixerSaturateOutput(index) saturates.
SaturatedByOutput(index) ==
    {i \in 1 .. (MIXER_INPUT_COUNT - 1) : i \in mixOutputMap[index]}

\* mixerSaturateOutput (lines 366-373).
MixerSaturateOutput(index) ==
    /\ op.name # "boot"
    /\ mixSaturated' = [i \in InputIdx |->
            IF i \in SaturatedByOutput(index) THEN MIXER_SATURATION_TIME
                                              ELSE mixSaturated[i]]
    /\ age' = Aged(SaturatedByOutput(index), FALSE)
    /\ op' = [name |-> "saturateOutput", arg |-> index]
    /\ UNCHANGED << mixerRules, configVars, initVars, envVars, tickVars, mixOverride >>

\* mixerSaturateInput (lines 361-364), called from outside the tick.
MixerSaturateInput(index) ==
    /\ op.name # "boot"
    /\ mixSaturated' = [mixSaturated EXCEPT ![index] = MIXER_SATURATION_TIME]
    /\ age' = Aged({index}, FALSE)
    /\ op' = [name |-> "saturateInput", arg |-> 0]
    /\ UNCHANGED << mixerRules, configVars, initVars, envVars, tickVars, mixOverride >>

\* mixerSetOverride (lines 400-403).
MixerSetOverride(i, value) ==
    /\ op.name # "boot"
    /\ mixOverride' = [mixOverride EXCEPT ![i] = value]
    /\ op' = [name |-> "setOverride", arg |-> 0]
    /\ UNCHANGED << mixerRules, configVars, initVars, envVars, tickVars,
                    mixSaturated, age >>

\* The persisted rule table is edited (CLI, MSP).
EditRules(table) ==
    /\ table # mixerRules
    /\ mixerRules' = table
    /\ op' = [name |-> "edit", arg |-> 0]
    /\ UNCHANGED << configVars, initVars, envVars, tickVars, mixOverride,
                    mixSaturated, age >>

(***************************************************************************)
(* Spec: the rule engine.  Default configuration, every rule table, the    *)
(* flight mode flags, edits of the persisted table and re-initialisation.  *)
(***************************************************************************)
FlagSets == {{}, {0}, {PASSTHRU_MODE}}

Init == InitWith(RuleTables, {DefaultInputs}, {DefaultConfig})

Next ==
    \/ MixerInit
    \/ \E f \in FlagSets, p \in {Neutral, Corner} :
            MixerUpdate(Env(TRUE, f, TRUE, p))
    \/ \E t \in RuleTables : EditRules(t)

Spec == Init /\ [][Next]_vars

(***************************************************************************)
(* SpecSaturation: the saturation tracker.  Clamping, the swash ring and   *)
(* mixerSaturateOutput set the counters, the ticks run them down.          *)
(***************************************************************************)
InitSaturation == InitWith({TableOffset}, {DefaultInputs, TrimmedInputs}, {RingConfig})

NextSaturation ==
    \/ MixerInit
    \/ \E f \in {{}, {0}}, p \in {Neutral, Corner, Beyond} :
            MixerUpdate(Env(TRUE, f, TRUE, p))
    \/ \E d \in OutputIdx : MixerSaturateOutput(d)

SpecSaturation == InitSaturation /\ [][NextSaturation]_vars

(***************************************************************************)
(* SpecInputs: the input registry.  Every input configuration and tail     *)
(* mode, overrides, arming, the producers' values.                         *)
(***************************************************************************)
OverrideInputs == {MIXER_IN_STABILIZED_COLLECTIVE, MIXER_IN_RC_COMMAND_ROLL}
OverrideValues == {MIXER_OVERRIDE_OFF, 300}

InitInputs ==
    \/ InitWith({TableSetAdd}, {DefaultInputs, InvertedInputs}, {RingConfig})
    \/ InitWith({TableSetAdd}, {TrimmedInputs}, {MotorizedConfig, BidirectionalConfig})

NextInputs ==
    \/ MixerInit
    \/ \E a \in BOOLEAN, s \in BOOLEAN, p \in {Neutral, Corner, Beyond} :
            MixerUpdate(Env(a, {}, s, p))
    \/ \E i \in OverrideInputs, v \in OverrideValues : MixerSetOverride(i, v)

SpecInputs == InitInputs /\ [][NextInputs]_vars

(***************************************************************************)
(* SpecTracker: the saturation tracker with every caller.  The ticks,      *)
(* mixerSaturateOutput and mixerSaturateInput in any order, over tables    *)
(* whose outputs take a SET before and after an ADD.                       *)
(***************************************************************************)
\* The input the callers of mixerSaturateInput mark.
SaturateInputs == {MIXER_IN_STABILIZED_YAW}

InitTracker == InitWith({TableOffset, TableAddSet}, {DefaultInputs}, {RingConfig})

NextTracker ==
    \/ MixerInit
    \/ \E p \in {Neutral, Corner, Beyond} : MixerUpdate(Env(TRUE, {0}, TRUE, p))
    \/ \E d \in OutputIdx : MixerSaturateOutput(d)
    \/ \E i \in SaturateInputs : MixerSaturateInput(i)

SpecTracker == InitTracker /\ [][NextTracker]_vars

(***************************************************************************)
(* SpecTail: the motorized tail linearizer.  Both motor-driven tail modes, *)
(* yaw demands of both signs, the rotor spooled up and spooling up.        *)
(***************************************************************************)
InitTail ==
    InitWith({TableSetAdd}, {TrimmedInputs}, {MotorizedConfig, BidirectionalConfig})

NextTail ==
    \/ MixerInit
    \/ \E s \in BOOLEAN, p \in {Neutral, Corner, Beyond, Creep, Slow} :
            MixerUpdate(Env(TRUE, {}, s, p))

SpecTail == InitTail /\ [][NextTail]_vars

(***************************************************************************)
(* SpecSwash: the cyclic compensator.  Swash phase 0, 90 and 180 degrees,  *)
(* the swash ring off and on, equal and unequal roll and pitch travel.     *)
(***************************************************************************)
InitSwash ==
    InitWith({TableSetAdd}, {DefaultInputs, NarrowInputs},
             {RingConfig, PhaseConfig, HalfTurnConfig, PhaseRingConfig})

NextSwash ==
    \/ MixerInit
    \/ \E p \in {Neutral, Corner, Beyond, Gentle} :
            MixerUpdate(Env(TRUE, {}, TRUE, p))

SpecSwash == InitSwash /\ [][NextSwash]_vars

(***************************************************************************)
(* The properties.                                                         *)
(***************************************************************************)
\* What the last tick read.
LastEnv == Env(armed, flightModeFlags, spooledUp, producers)

\* The inputs mixerUpdateInputs assigns with mixerSetInput.
SetIdx == 1 .. (MIXER_INPUT_COUNT - 1)

\* The value mixerSetInput(i) constrained in the last tick.
Effective(i) ==
    IF ~armed /\ mixOverride[i] >= MIXER_OVERRIDE_MIN
              /\ mixOverride[i] <= MIXER_OVERRIDE_MAX
        THEN mixOverride[i]
        ELSE RawValue(LastEnv, i)

WithinLimits(i, v) == mixerInputs[i].min <= v /\ v <= mixerInputs[i].max

ClampTo(i, v) ==
    IF v > mixerInputs[i].max THEN mixerInputs[i].max
    ELSE IF v < mixerInputs[i].min THEN mixerInputs[i].min
    ELSE v

SetInputContract(i) ==
    /\ WithinLimits(i, stored[i])
    /\ storedSat[i] = MIXER_SATURATION_TIME <=> stored[i] # Effective(i)

\* C1 as stated: after every mixerSetInput(i, raw) of a tick the stored
\* value lies within [min_i, max_i], and the counter of i stands at
\* MIXER_SATURATION_TIME exactly when clamping changed the value.
C1_Original ==
    op.name = "update" => \A i \in SetIdx : SetInputContract(i)

\* C1 amended: the same for every input whose configuration has
\* min <= max.
C1_SetInputClamps ==
    op.name = "update" =>
        \A i \in SetIdx :
            mixerInputs[i].min <= mixerInputs[i].max => SetInputContract(i)

\* A tick that clamped one input (counter set) and left another exactly on
\* its upper bound (counter not set).
C1_Witness ==
    /\ op.name = "update"
    /\ \E i \in SetIdx :
          /\ mixerInputs[i].min <= mixerInputs[i].max
          /\ ~WithinLimits(i, Effective(i))
          /\ storedSat[i] = MIXER_SATURATION_TIME
    /\ \E j \in SetIdx :
          /\ mixerInputs[j].min < mixerInputs[j].max
          /\ Effective(j) = mixerInputs[j].max
          /\ stored[j] = Effective(j)
          /\ storedSat[j] < MIXER_SATURATION_TIME

\* C2: armed, mixerSetInput stores the clamped raw value whatever the
\* override; disarmed with an override within [MIXER_OVERRIDE_MIN,
\* MIXER_OVERRIDE_MAX] it stores the clamped override whatever the raw
\* value; disarmed with the override off it stores the clamped raw value.
C2_OverrideGating ==
    op.name = "update" =>
        \A i \in SetIdx :
            stored[i] =
                IF armed THEN ClampTo(i, RawValue(LastEnv, i))
                ELSE IF mixOverride[i] \in MIXER_OVERRIDE_MIN .. MIXER_OVERRIDE_MAX
                    THEN ClampTo(i, mixOverride[i])
                ELSE ClampTo(i, RawValue(LastEnv, i))

\* A disarmed tick stored an override that differs from the raw value,
\* while another input with the override off kept its non-zero raw value.
C2_Witness ==
    /\ op.name = "update"
    /\ ~armed
    /\ \E i \in SetIdx :
          /\ mixOverride[i] \in MIXER_OVERRIDE_MIN .. MIXER_OVERRIDE_MAX
          /\ ClampTo(i, RawValue(LastEnv, i)) # ClampTo(i, mixOverride[i])
          /\ stored[i] = mixOverride[i]
    /\ \E j \in SetIdx :
          /\ mixOverride[j] = MIXER_OVERRIDE_OFF
          /\ stored[j] = RawValue(LastEnv, j)
          /\ stored[j] # 0

\* C3 as stated: after every mixerInit each runtime slot is the persisted
\* slot with its fields clamped, and a slot whose persisted operator is
\* NONE is inert.
C3_Original ==
    op.name = "init" =>
        \A i \in RuleIdx :
            IF mixerRules[i].oper = MIXER_OP_NUL
                THEN rules[i].oper = MIXER_OP_NUL
                ELSE rules[i] = ConstrainRule(mixerRules[i])

SaneLimits == \A i \in InputIdx : mixerInputs[i].min <= mixerInputs[i].max

CyclicInputs == {MIXER_IN_STABILIZED_ROLL, MIXER_IN_STABILIZED_PITCH}

\* C5 as stated: with min <= max everywhere, after every tick every input
\* but stabilized roll and pitch is within its limits, the yaw included in
\* every tail mode.
C5_Original ==
    (op.name = "update" /\ SaneLimits) =>
        \A i \in InputIdx \ CyclicInputs : WithinLimits(i, mixInput[i])

\* C5 amended: with min <= max everywhere, after every tick every input
\* mixerSetInput assigns is within its limits, except stabilized roll and
\* pitch and, in the motorized and bidirectional tail modes, the yaw.
C5_InputsWithinLimits ==
    (op.name = "update" /\ SaneLimits) =>
        \A i \in SetIdx \ CyclicInputs :
            \/ i = MIXER_IN_STABILIZED_YAW /\ mixerMotorizedTail
            \/ WithinLimits(i, mixInput[i])

\* A tick in a motor-driven tail mode that clamped the collective and left
\* the yaw, rewritten as tail throttle, above its maximum.
C5_Witness ==
    /\ op.name = "update"
    /\ SaneLimits
    /\ mixerMotorizedTail
    /\ mixInput[MIXER_IN_STABILIZED_YAW] > mixerInputs[MIXER_IN_STABILIZED_YAW].max
    /\ mixInput[MIXER_IN_STABILIZED_COLLECTIVE]
          = mixerInputs[MIXER_IN_STABILIZED_COLLECTIVE].max
    /\ RawValue(LastEnv, MIXER_IN_STABILIZED_COLLECTIVE)
          > mixerInputs[MIXER_IN_STABILIZED_COLLECTIVE].max

\* C6: k ticks without a saturation event after the counter of an input
\* was set to D = MIXER_SATURATION_TIME (by clamping, the swash ring or
\* mixerSaturateOutput) the counter is D - k: non-zero for k < D, zero from
\* k = D on; a tick with an event leaves it at D, the decrement coming
\* first.
C6_SaturationDecay ==
    \A i \in InputIdx :
        /\ mixSaturated[i] = MIXER_SATURATION_TIME - age[i]
        /\ (mixSaturated[i] > 0) <=> (age[i] < MIXER_SATURATION_TIME)

\* After a tick one input is on the last tick of its saturation (D - 1
\* quiet ticks since its event) and another was saturated in that tick.
C6_Witness ==
    /\ op.name = "update"
    /\ \E i \in InputIdx :
          age[i] = MIXER_SATURATION_TIME - 1 /\ mixSaturated[i] = 1
    /\ \E j \in InputIdx : age[j] = 0 /\ mixSaturated[j] = MIXER_SATURATION_TIME

\* The gate of line 287, from the flags: a bit below 16 matches an active
\* flag, a bit b + 16 matches flag b being inactive.
GateOpen(mode, flags) ==
    \/ mode = {}
    \/ \E b \in mode :
          \/ b < FLIGHT_MODE_BITS /\ b \in flags
          \/ b >= FLIGHT_MODE_BITS /\ (b - FLIGHT_MODE_BITS) \notin flags

\* C7: a rule with gate mask 0 applies in every tick; a rule with a
\* non-zero gate applies exactly when the gate meets the flight mode mask,
\* whose lower 16 bits are the active flags and whose upper 16 bits are
\* their complement.
C7_ModeGate ==
    op.name = "update" =>
        \A i \in RuleIdx :
            rules[i].oper # MIXER_OP_NUL =>
                (i \in applied <=> GateOpen(rules[i].mode, flightModeFlags))

\* A tick with flag 0 active and PASSTHRU_MODE inactive applied a rule
\* gated on bit 0 and a rule gated on bit PASSTHRU_MODE + 16.
C7_Witness ==
    /\ op.name = "update"
    /\ flightModeFlags = {0}
    /\ \E i \in applied : rules[i].mode = {0}
    /\ \E j \in applied : rules[j].mode = {PASSTHRU_MODE + FLIGHT_MODE_BITS}

\* The applied rules that target output d.
AppliedTo(d) == {i \in applied : rules[i].output = d}

\* C8: when the applied rules for an output are a SET followed by an ADD
\* the output is setValue + addValue; when they are an ADD followed by a
\* SET it is setValue alone.
C8_TableOrder ==
    op.name = "update" =>
        \A d \in OutputIdx : \A i, j \in RuleIdx :
            (i < j /\ AppliedTo(d) = {i, j}) =>
                /\ (rules[i].oper = MIXER_OP_SET /\ rules[j].oper = MIXER_OP_ADD) =>
                       mixOutput[d] = RuleOutput(mixInput, i) + RuleOutput(mixInput, j)
                /\ (rules[i].oper = MIXER_OP_ADD /\ rules[j].oper = MIXER_OP_SET) =>
                       mixOutput[d] = RuleOutput(mixInput, j)

\* A tick applied SET then ADD to one output, both with non-zero values.
C8_Witness ==
    /\ op.name = "update"
    /\ \E d \in OutputIdx : \E i, j \in RuleIdx :
          /\ i < j
          /\ AppliedTo(d) = {i, j}
          /\ rules[i].oper = MIXER_OP_SET
          /\ rules[j].oper = MIXER_OP_ADD
          /\ RuleOutput(mixInput, i) # 0
          /\ RuleOutput(mixInput, j) # 0
          /\ mixOutput[d] = RuleOutput(mixInput, i) + RuleOutput(mixInput, j)

\* C9: after every tick an output that no applied rule targeted is 0 with
\* an empty contributor bitmap, whatever it was before the tick.
C9_OutputsFromZero ==
    op.name = "update" =>
        \A d \in OutputIdx :
            AppliedTo(d) = {} => (mixOutput[d] = 0 /\ mixOutputMap[d] = {})

\* A tick left untargeted an output that was non-zero before it.
C9_Witness ==
    /\ op.name = "update"
    /\ \E d \in OutputIdx :
          AppliedTo(d) = {} /\ prevOutput[d] # 0 /\ mixOutput[d] = 0

Smaller(a, b) == IF a < b THEN a ELSE b
Larger(a, b) == IF a > b THEN a ELSE b

\* C10: every runtime rule has its operator in NONE..MUL, its source below
\* MIXER_INPUT_COUNT and its destination below MIXER_OUTPUT_COUNT, in
\* every state; mixerInit loads every persisted slot with an operator,
\* its out-of-range fields brought to the nearest bound.
C10_RuleDomains ==
    /\ \A i \in RuleIdx :
          /\ rules[i].oper \in MIXER_OP_NUL .. MIXER_OP_MUL
          /\ rules[i].input \in 0 .. (MIXER_INPUT_COUNT - 1)
          /\ rules[i].output \in 0 .. (MIXER_OUTPUT_COUNT - 1)
    /\ op.name = "init" =>
          \A i \in RuleIdx :
              mixerRules[i].oper # MIXER_OP_NUL =>
                  /\ rules[i].oper = Smaller(mixerRules[i].oper, MIXER_OP_MUL)
                  /\ rules[i].input = Smaller(mixerRules[i].input, MIXER_INPUT_COUNT - 1)
                  /\ rules[i].output = Smaller(mixerRules[i].output, MIXER_OUTPUT_COUNT - 1)
                  /\ rules[i].offset =
                        Larger(MIXER_INPUT_MIN, Smaller(mixerRules[i].offset, MIXER_INPUT_MAX))
                  /\ rules[i].weight =
                        Larger(MIXER_WEIGHT_MIN, Smaller(mixerRules[i].weight, MIXER_WEIGHT_MAX))

\* A tick applied a rule that mixerInit loaded from a persisted slot with
\* operator, source and destination all out of range.
C10_Witness ==
    /\ op.name = "update"
    /\ \E i \in applied :
          /\ mixerRules[i].oper >= MIXER_OP_COUNT
          /\ mixerRules[i].input >= MIXER_INPUT_COUNT
          /\ mixerRules[i].output >= MIXER_OUTPUT_COUNT
          /\ rules[i].oper = MIXER_OP_MUL
          /\ rules[i].input = MIXER_INPUT_COUNT - 1
          /\ rules[i].output = MIXER_OUTPUT_COUNT - 1

(***************************************************************************)
(* The motorized tail linearizer.                                          *)
(***************************************************************************)
\* The yaw demand and the main throttle the tail linearizer of the last
\* tick read: mixerSetInput stored them just before it ran.
YawDemand == stored[MIXER_IN_STABILIZED_YAW]
MainThrottle == stored[MIXER_IN_STABILIZED_THROTTLE]
TailThrottle == mixInput[MIXER_IN_STABILIZED_YAW]

Sign(x) == IF x < 0 THEN -1 ELSE IF x > 0 THEN 1 ELSE 0

\* sign(yaw) * sqrt(|yaw|)
SignedRoot(yaw) == Sign(yaw) * Isqrt(ABS(yaw) * 1000)

\* The idle-floored throttle of the tick's tail mode, before any gating.
IdleFloored ==
    IF mixerConfig.tail_rotor_mode = TAIL_MODE_MOTORIZED
        THEN Larger(Isqrt(Larger(YawDemand, 0) * 1000), tailMotorIdle)
    ELSE IF ABS(SignedRoot(YawDemand)) < tailMotorIdle
        THEN prevDirection * tailMotorIdle
    ELSE SignedRoot(YawDemand)

TailTick(mode) == op.name = "update" /\ mixerConfig.tail_rotor_mode = mode

\* C11 as stated: in bidirectional mode a tick whose computed throttle is
\* exactly 0 leaves the remembered direction as it found it, and a tick
\* with a non-zero throttle remembers its sign.
C11_Original ==
    TailTick(TAIL_MODE_BIDIRECTIONAL) =>
        tailMotorDirection =
            IF TailThrottle = 0 THEN prevDirection ELSE Sign(TailThrottle)

\* C12: in both motor-driven tail modes, a tick with the rotor not spooled
\* up and the main throttle below 0.01 ends with yaw exactly 0; with the
\* main throttle in [0.01, 0.20) the yaw is the idle-floored tail throttle
\* times throttle / 0.20; with the rotor spooled up, or the main throttle
\* at 0.20 or more, it is the idle-floored tail throttle itself.
C12_SlowSpoolup ==
    (op.name = "update" /\ mixerConfig.tail_rotor_mode
            \in {TAIL_MODE_MOTORIZED, TAIL_MODE_BIDIRECTIONAL}) =>
        /\ MainThrottle = mixInput[MIXER_IN_STABILIZED_THROTTLE]
        /\ (~spooledUp /\ MainThrottle < 10) => TailThrottle = 0
        /\ (~spooledUp /\ MainThrottle >= 10 /\ MainThrottle < 200) =>
               TailThrottle = TDiv(IdleFloored * MainThrottle, 200)
        /\ (spooledUp \/ MainThrottle >= 200) => TailThrottle = IdleFloored

\* A tick with the rotor not spooled up and a main throttle above zero
\* and below 0.01 cut a non-zero idle-floored throttle to 0.
C12_Witness ==
    /\ op.name = "update"
    /\ mixerMotorizedTail
    /\ ~spooledUp
    /\ MainThrottle > 0
    /\ MainThrottle < 10
    /\ IdleFloored # 0
    /\ TailThrottle = 0

\* C13: in bidirectional mode with the rotor spooled up and idle > 0, a
\* tick whose linearized yaw throttle is below idle in magnitude and that
\* found the direction d in {+1, -1} ends with yaw = d * idle, never 0.
C13_IdleSnap ==
    (/\ TailTick(TAIL_MODE_BIDIRECTIONAL)
     /\ spooledUp
     /\ tailMotorIdle > 0
     /\ ABS(SignedRoot(YawDemand)) < tailMotorIdle
     /\ prevDirection \in {1, -1}) =>
        /\ TailThrottle = prevDirection * tailMotorIdle
        /\ TailThrottle # 0

\* A spooled-up tick with no yaw demand found the direction -1 and
\* snapped to -idle.
C13_Witness ==
    /\ TailTick(TAIL_MODE_BIDIRECTIONAL)
    /\ spooledUp
    /\ tailMotorIdle > 0
    /\ YawDemand = 0
    /\ prevDirection = -1
    /\ TailThrottle = -tailMotorIdle

\* C14: in motorized mode the yaw at the end of a tick is never negative;
\* with the rotor spooled up it is max(sqrt(max(yaw, 0)), idle): idle for
\* every yaw demand <= 0, and 0.5 for yaw = 0.25 when idle <= 0.5.
C14_Unidirectional ==
    TailTick(TAIL_MODE_MOTORIZED) =>
        /\ TailThrottle >= 0
        /\ spooledUp =>
              /\ TailThrottle = Larger(Isqrt(Larger(YawDemand, 0) * 1000), tailMotorIdle)
              /\ YawDemand <= 0 => TailThrottle = tailMotorIdle
              /\ (YawDemand = 250 /\ tailMotorIdle <= 500) => TailThrottle = 500

\* A spooled-up tick in motorized mode with idle > 0 turned the yaw
\* demand 0.25 into the throttle 0.5.
C14_Witness ==
    /\ TailTick(TAIL_MODE_MOTORIZED)
    /\ spooledUp
    /\ tailMotorIdle > 0
    /\ YawDemand = 250
    /\ TailThrottle = 500

\* A spooled-up tick in motorized mode with a negative yaw demand ended
\* on idle.
C14_NegativeDemand ==
    /\ TailTick(TAIL_MODE_MOTORIZED)
    /\ spooledUp
    /\ tailMotorIdle > 0
    /\ YawDemand < 0
    /\ TailThrottle = tailMotorIdle

(***************************************************************************)
(* The cyclic compensator.                                                 *)
(***************************************************************************)
\* The clamped stabilized pair mixerSetInput stored in the last tick, and
\* the pair at the end of the tick.
ClampedRoll == stored[MIXER_IN_STABILIZED_ROLL]
ClampedPitch == stored[MIXER_IN_STABILIZED_PITCH]
FinalRoll == mixInput[MIXER_IN_STABILIZED_ROLL]
FinalPitch == mixInput[MIXER_IN_STABILIZED_PITCH]

Magnitude(x, y) == Isqrt(x * x + y * y)

\* C15 as stated: with swash phase 90 degrees and the ring off, a tick
\* whose clamped pair is (roll 1, pitch 0) ends with roll 0 and pitch 1.
C15_Original ==
    (/\ op.name = "update"
     /\ mixerConfig.swash_phase = 900
     /\ mixerConfig.swash_ring = 0
     /\ ClampedRoll = 1000
     /\ ClampedPitch = 0) =>
        (ABS(FinalRoll) <= 1 /\ ABS(FinalPitch - 1000) <= 1)

\* C15 amended: with swash phase 90 degrees and the ring off, a tick
\* whose clamped pair is (roll 1, pitch 0) ends with roll 0 and pitch -1:
\* pitch' = SP * cos - SR * sin = -SR.
C15_QuarterTurn ==
    (/\ op.name = "update"
     /\ mixerConfig.swash_phase = 900
     /\ mixerConfig.swash_ring = 0
     /\ ClampedRoll = 1000
     /\ ClampedPitch = 0) =>
        (ABS(FinalRoll) <= 1 /\ ABS(FinalPitch + 1000) <= 1)

\* Such a tick happened.
C15_Witness ==
    /\ op.name = "update"
    /\ mixerConfig.swash_phase = 900
    /\ mixerConfig.swash_ring = 0
    /\ ClampedRoll = 1000
    /\ ClampedPitch = 0
    /\ FinalRoll = 0
    /\ FinalPitch = -1000

\* The limit of an axis in the direction of its value, times cyclicLimit.
AxisLimit(i, v) ==
    Larger(TDiv(Larger(ABS(IF v < 0 THEN mixerInputs[i].min ELSE mixerInputs[i].max), 1)
                    * cyclicLimit, 1000), 1)

\* The Euclidean magnitude of the pair normalised by the axis limits.
NormalisedMagnitude(roll, pitch) ==
    Magnitude(TDiv(roll * 1000, AxisLimit(MIXER_IN_STABILIZED_ROLL, roll)),
              TDiv(pitch * 1000, AxisLimit(MIXER_IN_STABILIZED_PITCH, pitch)))

\* C16: with the swash ring enabled, a tick whose normalised pair has a
\* magnitude above 1 sets the counters of roll and pitch to
\* MIXER_SATURATION_TIME and divides both values by the magnitude, the
\* normalised magnitude becoming 1 (within the rounding of two
\* divisions); a tick whose magnitude is at most 1 leaves both values and
\* both counters as the phasing and mixerSetInput left them.
C16_SwashRing ==
    (op.name = "update" /\ mixerConfig.swash_ring > 0) =>
        LET mag == NormalisedMagnitude(phased.roll, phased.pitch)
        IN  IF mag > 1000
                THEN /\ mixSaturated[MIXER_IN_STABILIZED_ROLL] = MIXER_SATURATION_TIME
                     /\ mixSaturated[MIXER_IN_STABILIZED_PITCH] = MIXER_SATURATION_TIME
                     /\ FinalRoll = TDiv(phased.roll * 1000, mag)
                     /\ FinalPitch = TDiv(phased.pitch * 1000, mag)
                     /\ NormalisedMagnitude(FinalRoll, FinalPitch) <= 1000
                     /\ NormalisedMagnitude(FinalRoll, FinalPitch) >= 995
                ELSE /\ FinalRoll = phased.roll
                     /\ FinalPitch = phased.pitch
                     /\ mixSaturated[MIXER_IN_STABILIZED_ROLL]
                            = storedSat[MIXER_IN_STABILIZED_ROLL]
                     /\ mixSaturated[MIXER_IN_STABILIZED_PITCH]
                            = storedSat[MIXER_IN_STABILIZED_PITCH]

\* A tick with unequal roll and pitch travel scaled back a pair that
\* mixerSetInput had not saturated in the roll.
C16_Witness ==
    /\ op.name = "update"
    /\ mixerConfig.swash_ring > 0
    /\ mixerInputs[MIXER_IN_STABILIZED_ROLL].max
          # mixerInputs[MIXER_IN_STABILIZED_PITCH].max
    /\ NormalisedMagnitude(phased.roll, phased.pitch) > 1000
    /\ storedSat[MIXER_IN_STABILIZED_ROLL] < MIXER_SATURATION_TIME
    /\ mixSaturated[MIXER_IN_STABILIZED_ROLL] = MIXER_SATURATION_TIME
    /\ mixSaturated[MIXER_IN_STABILIZED_PITCH] = MIXER_SATURATION_TIME
    /\ ABS(FinalRoll) < ABS(phased.roll)
    /\ ABS(FinalPitch) < ABS(phased.pitch)

\* A tick with the ring enabled and a non-zero pair of magnitude at most
\* 1 changed nothing.
C16_Inside ==
    /\ op.name = "update"
    /\ mixerConfig.swash_ring > 0
    /\ phased.roll # 0
    /\ NormalisedMagnitude(phased.roll, phased.pitch) <= 1000
    /\ FinalRoll = phased.roll
    /\ mixSaturated[MIXER_IN_STABILIZED_ROLL] = 0

\* C18 as stated: the rotation is applied in a tick exactly when the
\* configured swash phase is non-zero; for every non-zero angle, 180
\* degrees included, the pair becomes pitch' = SP * cos - SR * sin,
\* roll' = SP * sin + SR * cos, and for angle 0 it is unchanged.
C18_Original ==
    op.name = "update" =>
        IF mixerConfig.swash_phase # 0
            THEN /\ phased.pitch =
                        TDiv(ClampedPitch * cos_approx(mixerConfig.swash_phase)
                             - ClampedRoll * sin_approx(mixerConfig.swash_phase), 1000)
                 /\ phased.roll =
                        TDiv(ClampedPitch * sin_approx(mixerConfig.swash_phase)
                             + ClampedRoll * cos_approx(mixerConfig.swash_phase), 1000)
            ELSE phased.pitch = ClampedPitch /\ phased.roll = ClampedRoll

\* cyclicTotal, as getCyclicDeflection returns it.
getCyclicDeflection == cyclicTotal

\* C19: after every tick getCyclicDeflection() is the Euclidean magnitude
\* of stabilized roll and pitch as the tick left them: taken after the
\* phasing and the swash ring, and nothing later changes either value.
C19_CyclicTotal ==
    op.name = "update" => getCyclicDeflection = Magnitude(FinalRoll, FinalPitch)

\* A tick rotated the pair and scaled it back: the deflection is that of
\* the final pair, below that of the clamped pair.
C19_Witness ==
    /\ op.name = "update"
    /\ mixerConfig.swash_phase # 0
    /\ mixerConfig.swash_ring > 0
    /\ FinalRoll # ClampedRoll
    /\ ABS(FinalPitch) < ABS(phased.pitch)
    /\ getCyclicDeflection = Magnitude(FinalRoll, FinalPitch)
    /\ getCyclicDeflection < Magnitude(ClampedRoll, ClampedPitch)
    /\ getCyclicDeflection > 0

(***************************************************************************)
(* The contributor bitmaps and the saturation counters.                    *)
(***************************************************************************)
\* The applied SET rules of output d, and the slot of the last of them.
AppliedSets(d) == {i \in AppliedTo(d) : rules[i].oper = MIXER_OP_SET}
LastSet(d) == CHOOSE i \in AppliedSets(d) : \A j \in AppliedSets(d) : j <= i

\* The sources of the rules applied to d at or after its last applied
\* SET, of all the rules applied to d when none is a SET.
Contributors(d) ==
    {rules[i].input : i \in {j \in AppliedTo(d) :
                                AppliedSets(d) = {} \/ j >= LastSet(d)}}

\* The sources of the rules applied to d that a later SET has dropped.
Dropped(d) == {rules[i].input : i \in AppliedTo(d)} \ Contributors(d)

\* C17: after every tick the contributor bitmap of each output d is the
\* set of sources of the rules applied to d at or after the last applied
\* SET for d (of all applied rules for d if none is a SET); and
\* mixerSaturateOutput(d) leaves the counter of every input that
\* contributed only before a later applied SET as it was.
C17_Contributors ==
    /\ [](op.name \in {"update", "saturateOutput", "saturateInput"} =>
            \A d \in OutputIdx : mixOutputMap[d] = Contributors(d))
    /\ [][op'.name = "saturateOutput" =>
            \A i \in Dropped(op'.arg) : mixSaturated'[i] = mixSaturated[i]]_vars

\* mixerSaturateOutput ran on an output whose last applied SET had dropped
\* an earlier ADD: the source of the SET is saturated, that of the ADD is
\* outside the bitmap and not saturated.
C17_Witness ==
    /\ op.name = "saturateOutput"
    /\ \E i \in Dropped(op.arg) :
          /\ i # MIXER_IN_NONE
          /\ i \notin mixOutputMap[op.arg]
          /\ mixSaturated[i] = 0
    /\ \E j \in Contributors(op.arg) :
          j # MIXER_IN_NONE /\ mixSaturated[j] = MIXER_SATURATION_TIME

\* C20: in every state reachable by any interleaving of mixerInit,
\* mixerUpdate, mixerSaturateInput and mixerSaturateOutput every
\* saturation counter lies in [0, MIXER_SATURATION_TIME].
C20_CounterRange ==
    \A i \in InputIdx : mixSaturated[i] \in 0 .. MIXER_SATURATION_TIME

\* After a mixerSaturateInput call one counter stands at the full
\* duration, another is part way down and a third, once set, has run out.
C20_Witness ==
    /\ op.name = "saturateInput"
    /\ \E i \in SaturateInputs : mixSaturated[i] = MIXER_SATURATION_TIME
    /\ \E j \in InputIdx :
          mixSaturated[j] > 0 /\ mixSaturated[j] < MIXER_SATURATION_TIME
    /\ \E k \in SetIdx : mixSaturated[k] = 0

====
